---------------------------- MODULE Spec2Model ----------------------------
(***************************************************************************)
(* The function-call dispatch core of the Aipolabs client                  *)
(* (src/aipolabs/_client.py): handle_function_call, the four resource      *)
(* operations wrapped by the tenacity retry policy, and _handle_response.  *)
(*                                                                         *)
(* One client, used synchronously: a call is started (dispatch and         *)
(* validation), then the retry loop makes one attempt per step, the remote *)
(* service (the environment) choosing the outcome of each attempt.         *)
(***************************************************************************)
EXTENDS Integers, Sequences, FiniteSets, TLC

\* ------------------------------------------------------------------ bounds

\* Number of calls made one after the other on the same client.
MaxCalls == 2

\* stop_after_attempt(DEFAULT_MAX_RETRIES); aipolabs/_constants.py sets 3
\* (two failures and one success make DEFAULT_MAX_RETRIES requests).
DEFAULT_MAX_RETRIES == 3

\* ------------------------------------------------------------------ values
\* A JSON value of a parameter mapping.  Every value has the same shape so
\* that values of different JSON types can be compared: ty is the JSON type,
\* s the string, n the integer, d the entries of a nested object or array
\* (each entry a flat record [k, ty, s, n]).

StrV(str) == [ty |-> "str", s |-> str, n |-> 0, d |-> {}]
IntV(num) == [ty |-> "int", s |-> "", n |-> num, d |-> {}]
NullV == [ty |-> "null", s |-> "", n |-> 0, d |-> {}]
DictV(entries) == [ty |-> "dict", s |-> "", n |-> 0, d |-> entries]
ListV(entries) == [ty |-> "list", s |-> "", n |-> 0, d |-> entries]

Entry(key, v) == [k |-> key, ty |-> v.ty, s |-> v.s, n |-> v.n]

EmptyDict == [key \in {} |-> NullV]

\* The mapping a nested object value stands for.
AsDict(v) ==
    [key \in {e.k : e \in v.d} |->
        LET e == CHOOSE x \in v.d : x.k = key
        IN  [ty |-> e.ty, s |-> e.s, n |-> e.n, d |-> {}]]

\* dict restricted to the keys in keys.
Restrict(dict, keys) == [key \in (DOMAIN dict) \cap keys |-> dict[key]]

Has(dict, key) == key \in DOMAIN dict

\* ------------------------------------------------------- meta-operations

SEARCH_APPS_NAME == "AIPOLABS_SEARCH_APPS"
SEARCH_FUNCTIONS_NAME == "AIPOLABS_SEARCH_FUNCTIONS"
GET_FUNCTION_DEFINITION_NAME == "AIPOLABS_GET_FUNCTION_DEFINITION"
EXECUTE_FUNCTION_NAME == "AIPOLABS_EXECUTE_FUNCTION"

MetaNames ==
    {SEARCH_APPS_NAME, SEARCH_FUNCTIONS_NAME, GET_FUNCTION_DEFINITION_NAME,
     EXECUTE_FUNCTION_NAME}

\* The attribute of the validated ExecuteFunction parameters that
\* handle_function_call passes on as the function's input.
ARGS_KEY == "function_parameters"

\* Result of a validator: the validated model (the fields the caller set),
\* or the field pydantic rejects.
Valid(dict) == [ok |-> TRUE, value |-> dict, field |-> ""]
Invalid(name) == [ok |-> FALSE, value |-> EmptyDict, field |-> name]

\* A field declared "<type> | None = None".
OptionalOk(dict, key, type) == ~Has(dict, key) \/ dict[key].ty \in {type, "null"}

\* A field declared "<type>" (required).
RequiredOk(dict, key, type) == Has(dict, key) /\ dict[key].ty = type

\* list[str]: every item a string.
StrListOk(dict, key) ==
    ~Has(dict, key) \/ dict[key].ty = "null"
        \/ (dict[key].ty = "list" /\ \A e \in dict[key].d : e.ty = "str")

SearchAppsFields == {"intent", "limit", "offset"}

\* SearchAppsParams.model_validate: unknown keys are ignored, each declared
\* field is checked against its type; no bound is declared on limit/offset.
SearchAppsValidate(params) ==
    IF ~OptionalOk(params, "intent", "str") THEN Invalid("intent")
    ELSE IF ~OptionalOk(params, "limit", "int") THEN Invalid("limit")
    ELSE IF ~OptionalOk(params, "offset", "int") THEN Invalid("offset")
    ELSE Valid(Restrict(params, SearchAppsFields))

SearchFunctionsFields == {"app_names", "intent", "limit", "offset"}

SearchFunctionsValidate(params) ==
    IF ~StrListOk(params, "app_names") THEN Invalid("app_names")
    ELSE IF ~OptionalOk(params, "intent", "str") THEN Invalid("intent")
    ELSE IF ~OptionalOk(params, "limit", "int") THEN Invalid("limit")
    ELSE IF ~OptionalOk(params, "offset", "int") THEN Invalid("offset")
    ELSE Valid(Restrict(params, SearchFunctionsFields))

\* AipolabsGetFunctionDefinition.validate_params: function_name is required.
GetFunctionDefinitionValidate(params) ==
    IF ~RequiredOk(params, "function_name", "str") THEN Invalid("function_name")
    ELSE Valid(Restrict(params, {"function_name"}))

\* AipolabsExecuteFunction.validate_params: function_name and the nested
\* arguments object are both required.
ExecuteFunctionValidate(params) ==
    IF ~RequiredOk(params, "function_name", "str") THEN Invalid("function_name")
    ELSE IF ~RequiredOk(params, ARGS_KEY, "dict") THEN Invalid(ARGS_KEY)
    ELSE Valid(Restrict(params, {"function_name", ARGS_KEY}))

\* --------------------------------------------------------------- transport

\* A response body: content is FALSE for an empty body, valid_json says
\* whether response.json() parses it, is_dict whether the parsed value is a
\* JSON object; message / error are the object's fields of that name ("" when
\* absent or empty, which Python's "or" treats alike); text is the raw text.
Body(id, content, valid_json, is_dict, message, error) ==
    [text |-> id, content |-> content, valid_json |-> valid_json,
     is_dict |-> is_dict, message |-> message, error |-> error]

B_EMPTY == Body("", FALSE, FALSE, FALSE, "", "")
B_MALFORMED == Body("<html>oops", TRUE, FALSE, FALSE, "", "")
B_MESSAGE == Body("{message: m, error: e2}", TRUE, TRUE, TRUE, "m", "e2")
B_FAILED == Body("{success: false, error: e}", TRUE, TRUE, TRUE, "", "e")
B_OK == Body("{success: true, data: d}", TRUE, TRUE, TRUE, "", "")
B_LIST == Body("[{name: a, description: b}]", TRUE, TRUE, FALSE, "", "")

AllBodies == {B_EMPTY, B_MALFORMED, B_MESSAGE, B_FAILED, B_OK, B_LIST}

\* The outcome of one attempt as the environment decides it: a response, or
\* an exception raised by httpx while sending (transport # "").
Response(status, body) == [transport |-> "", status |-> status, body |-> body]
TransportFailure(kind) == [transport |-> kind, status |-> 0, body |-> B_EMPTY]

TIMEOUT == "httpx.TimeoutException"
NETWORK == "httpx.NetworkError"
PROTOCOL == "httpx.RemoteProtocolError"
TransportKinds == {TIMEOUT, NETWORK, PROTOCOL}

\* What is remembered of an earlier attempt.
Tag(outcome) == [transport |-> outcome.transport, status |-> outcome.status]

\* An exception: kind is its class, message its first argument, code the
\* status code formatted into the message (-1 when none is), status_code and
\* body the two further arguments of the typed errors.
Exc(kind, message, code, status_code, text) ==
    [kind |-> kind, message |-> message, code |-> code,
     status_code |-> status_code, body |-> text]

NoExc == Exc("", "", -1, 0, "")

\* The exception httpx raises for a transport failure.
TransportExc(kind) == Exc(kind, "transport failure", -1, 0, "")

\* response.json() if response.content else None; JSONDecodeError -> None.
Json(body) ==
    IF body.content /\ body.valid_json
    THEN [none |-> FALSE, text |-> body.text]
    ELSE [none |-> TRUE, text |-> ""]

NoneJson == [none |-> TRUE, text |-> ""]

\* message or error or response.text for a JSON object, else response.text.
ErrorMessage(body) ==
    IF ~Json(body).none /\ body.is_dict
    THEN IF body.message # "" THEN body.message
         ELSE IF body.error # "" THEN body.error
         ELSE body.text
    ELSE body.text

Returned(json) == [raised |-> FALSE, value |-> json, exc |-> NoExc]
Raised(exc) == [raised |-> TRUE, value |-> NoneJson, exc |-> exc]

UnknownMessage == "Unexpected error occurred. Status code: {}"

\* _handle_response with the upper end of the server-error range included
\* (500 <= status <= 600).
HandleResponse_Inclusive600(status, body) ==
    IF status = 200 THEN Returned(Json(body))
    ELSE IF status = 401
        THEN Raised(Exc("AuthenticationError", ErrorMessage(body), -1, status, body.text))
    ELSE IF status = 403
        THEN Raised(Exc("PermissionError", ErrorMessage(body), -1, status, body.text))
    ELSE IF status = 404
        THEN Raised(Exc("NotFoundError", ErrorMessage(body), -1, status, body.text))
    ELSE IF status = 400
        THEN Raised(Exc("ValidationError", ErrorMessage(body), -1, status, body.text))
    ELSE IF status = 429
        THEN Raised(Exc("RateLimitError", ErrorMessage(body), -1, status, body.text))
    ELSE IF 500 <= status /\ status <= 600
        THEN Raised(Exc("ServerError", ErrorMessage(body), -1, status, body.text))
    ELSE Raised(Exc("UnknownError", UnknownMessage, status, status, body.text))

\* _handle_response treating a 200 body that reports a failed execution
\* (an error field) as a server error.
HandleResponse_RaiseOnFailure(status, body) ==
    IF status = 200 /\ ~Json(body).none /\ body.is_dict /\ body.error # ""
        THEN Raised(Exc("ServerError", ErrorMessage(body), -1, status, body.text))
    ELSE IF status = 200 THEN Returned(Json(body))
    ELSE IF status = 401
        THEN Raised(Exc("AuthenticationError", ErrorMessage(body), -1, status, body.text))
    ELSE IF status = 403
        THEN Raised(Exc("PermissionError", ErrorMessage(body), -1, status, body.text))
    ELSE IF status = 404
        THEN Raised(Exc("NotFoundError", ErrorMessage(body), -1, status, body.text))
    ELSE IF status = 400
        THEN Raised(Exc("ValidationError", ErrorMessage(body), -1, status, body.text))
    ELSE IF status = 429
        THEN Raised(Exc("RateLimitError", ErrorMessage(body), -1, status, body.text))
    ELSE IF 500 <= status /\ status < 600
        THEN Raised(Exc("ServerError", ErrorMessage(body), -1, status, body.text))
    ELSE Raised(Exc("UnknownError", UnknownMessage, status, status, body.text))

\* Aipolabs._handle_response
HandleResponse(status, body) ==
    IF status = 200 THEN Returned(Json(body))
    ELSE IF status = 401
        THEN Raised(Exc("AuthenticationError", ErrorMessage(body), -1, status, body.text))
    ELSE IF status = 403
        THEN Raised(Exc("PermissionError", ErrorMessage(body), -1, status, body.text))
    ELSE IF status = 404
        THEN Raised(Exc("NotFoundError", ErrorMessage(body), -1, status, body.text))
    ELSE IF status = 400
        THEN Raised(Exc("ValidationError", ErrorMessage(body), -1, status, body.text))
    ELSE IF status = 429
        THEN Raised(Exc("RateLimitError", ErrorMessage(body), -1, status, body.text))
    ELSE IF 500 <= status /\ status < 600
        THEN Raised(Exc("ServerError", ErrorMessage(body), -1, status, body.text))
    ELSE Raised(Exc("UnknownError", UnknownMessage, status, status, body.text))

\* The retry predicate without the two httpx exception types.
RetryTypes_NoTransport == {"ServerError", "RateLimitError", "UnknownError"}

\* The retry predicate without UnknownError.
RetryTypes_NoUnknown == {"ServerError", "RateLimitError", TIMEOUT, NETWORK}

\* retry_if_exception_type((ServerError, RateLimitError, UnknownError,
\* httpx.TimeoutException, httpx.NetworkError))
RetryTypes == {"ServerError", "RateLimitError", "UnknownError", TIMEOUT, NETWORK}

\* retry_if_exception_type(Exception): every error is retried.
ShouldRetry_Any(exc) == TRUE

\* The retry predicate with NotFoundError added.
ShouldRetry_NotFound(exc) == exc.kind \in RetryTypes \cup {"NotFoundError"}

\* The retry predicate without the transport's timeout.
ShouldRetry_NoTimeout(exc) == exc.kind \in RetryTypes \ {TIMEOUT}

ShouldRetry(exc) == exc.kind \in RetryTypes

\* The stop condition one attempt late, and one attempt early.
ShouldStop_OffByOne(attempt) == attempt > DEFAULT_MAX_RETRIES
ShouldStop_Early(attempt) == attempt >= DEFAULT_MAX_RETRIES - 1

\* A second retry layer around the first: the budget multiplied by itself.
ShouldStop_Nested(attempt) == attempt >= DEFAULT_MAX_RETRIES * DEFAULT_MAX_RETRIES

\* stop_after_attempt(DEFAULT_MAX_RETRIES)
ShouldStop(attempt) == attempt >= DEFAULT_MAX_RETRIES

\* "reraise": False -- tenacity raises its RetryError around the last error.
Reraise_Wrapped(exc) == Exc("tenacity.RetryError", exc.kind, -1, 0, "")

\* "reraise": True -- when the policy stops, the exception of the last
\* attempt is raised as it is (tenacity would otherwise raise RetryError).
Reraise(exc) == exc

\* One attempt of a function under @retry(**retry_config): what the function
\* does with the outcome, then what the policy decides.
AttemptResult(outcome) ==
    IF outcome.transport # ""
    THEN Raised(TransportExc(outcome.transport))
    ELSE HandleResponse(outcome.status, outcome.body)

\* ---------------------------------------------------------------- requests

\* self.inference_provider = "openai"
INFERENCE_PROVIDER == "openai"

\* An HTTP request: path is the list of path segments below base_url, query
\* the query parameters, body_key / input the one field of the JSON body
\* (body_key = "" when the request has no body).
Request(method, path, query, body_key, input) ==
    [method |-> method, path |-> path, query |-> query,
     body_key |-> body_key, input |-> input]

NoRequest == Request("", <<>>, EmptyDict, "", EmptyDict)

\* search_apps: client.get("apps/search", params=params.model_dump(exclude_unset=True))
SearchAppsRequest(params) ==
    Request("GET", <<"apps", "search">>, params, "", EmptyDict)

\* search_functions
SearchFunctionsRequest(params) ==
    Request("GET", <<"functions", "search">>, params, "", EmptyDict)

\* get_function_definition
GetFunctionDefinitionRequest(function_name) ==
    Request("GET", <<"functions", function_name>>,
            "inference_provider" :> StrV(INFERENCE_PROVIDER), "", EmptyDict)

\* execute_function: client.post(f"functions/{function_name}/execute",
\* json={"function_input": function_parameters})
ExecuteFunctionRequest(function_name, function_parameters) ==
    Request("POST", <<"functions", function_name, "execute">>, EmptyDict,
            "function_input", function_parameters)

\* ---------------------------------------------------------------- dispatch

\* What handle_function_call does before the retry loop starts: the request
\* of the resource operation it calls, or the field whose validation failed.
Started(op, request) == [ok |-> TRUE, op |-> op, request |-> request, field |-> ""]
Rejected(field) == [ok |-> FALSE, op |-> "", request |-> NoRequest, field |-> field]

\* The SearchApps branch calling the operation without validating first.
DispatchSearchApps_NoValidate(function_parameters) ==
    Started("search_apps",
            SearchAppsRequest(Restrict(function_parameters, SearchAppsFields)))

\* handle_function_call, the branch of AipolabsSearchApps.NAME
DispatchSearchApps(function_parameters) ==
    LET v == SearchAppsValidate(function_parameters)
    IN  IF v.ok THEN Started("search_apps", SearchAppsRequest(v.value))
        ELSE Rejected(v.field)

\* handle_function_call, the branch of AipolabsSearchFunctions.NAME
DispatchSearchFunctions(function_parameters) ==
    LET v == SearchFunctionsValidate(function_parameters)
    IN  IF v.ok THEN Started("search_functions", SearchFunctionsRequest(v.value))
        ELSE Rejected(v.field)

\* handle_function_call, the branch of AipolabsGetFunctionDefinition.NAME
DispatchGetFunctionDefinition(function_parameters) ==
    LET v == GetFunctionDefinitionValidate(function_parameters)
    IN  IF v.ok
        THEN Started("get_function_definition",
                     GetFunctionDefinitionRequest(v.value["function_name"].s))
        ELSE Rejected(v.field)

\* The ExecuteFunction branch passing on the meta-operation's whole
\* parameter mapping instead of the nested arguments object.
DispatchExecuteFunction_WholeParams(function_parameters) ==
    LET v == ExecuteFunctionValidate(function_parameters)
    IN  IF v.ok
        THEN Started("execute_function",
                     ExecuteFunctionRequest(v.value["function_name"].s,
                                            function_parameters))
        ELSE Rejected(v.field)

\* handle_function_call, the branch of AipolabsExecuteFunction.NAME: the
\* raw parameters go to the validator as they are; the operation gets the
\* validated function_name and nested arguments object.
DispatchExecuteFunction(function_parameters) ==
    LET v == ExecuteFunctionValidate(function_parameters)
    IN  IF v.ok
        THEN Started("execute_function",
                     ExecuteFunctionRequest(v.value["function_name"].s,
                                            AsDict(v.value[ARGS_KEY])))
        ELSE Rejected(v.field)

\* The else branch checking the name against a local catalogue first (the
\* check the TODO of that branch asks for).
DispatchDirect_CheckExists(function_name, function_parameters) ==
    IF function_name \in {"BRAVE_SEARCH__WEB_SEARCH"}
    THEN Started("execute_function",
                 ExecuteFunctionRequest(function_name, function_parameters))
    ELSE Rejected("function_name")

\* handle_function_call, the else branch: any other name is executed as an
\* indexed function, with the parameters as its input.
DispatchDirect(function_name, function_parameters) ==
    Started("execute_function",
            ExecuteFunctionRequest(function_name, function_parameters))

\* Aipolabs.handle_function_call
Dispatch(function_name, function_parameters) ==
    IF function_name = SEARCH_APPS_NAME
        THEN DispatchSearchApps(function_parameters)
    ELSE IF function_name = SEARCH_FUNCTIONS_NAME
        THEN DispatchSearchFunctions(function_parameters)
    ELSE IF function_name = GET_FUNCTION_DEFINITION_NAME
        THEN DispatchGetFunctionDefinition(function_parameters)
    ELSE IF function_name = EXECUTE_FUNCTION_NAME
        THEN DispatchExecuteFunction(function_parameters)
    ELSE DispatchDirect(function_name, function_parameters)

\* pydantic's ValidationError, raised by a validator (not the client's
\* ValidationError of a 400 response).
PydanticError(field) == Exc("pydantic.ValidationError", field, -1, 0, "")

\* ------------------------------------------------------------------ inputs

NonMetaNames == {"BRAVE_SEARCH__WEB_SEARCH", "aipolabs_search_apps"}
CallNames == MetaNames \cup NonMetaNames

XY == {Entry("x", IntV(1)), Entry("y", IntV(2))}

P_EMPTY == EmptyDict
P_INTENT == "intent" :> StrV("search apps")
P_NULL == ("intent" :> NullV) @@ ("limit" :> IntV(10))
P_QUERY == "query" :> StrV("test")
P_BADLIMIT == "limit" :> StrV("abc")
P_BOUNDS == ("limit" :> IntV(0)) @@ ("offset" :> IntV(-1))
P_APPS == ("app_names" :> ListV({Entry("0", StrV("TEST"))}))
              @@ ("intent" :> StrV("search functions"))
P_BADAPPS == "app_names" :> StrV("TEST")
P_NAME == "function_name" :> StrV("TEST_FUNCTION")
P_BADNAME == "function_name" :> IntV(7)
P_PROVIDER == ("function_name" :> StrV("TEST_FUNCTION"))
                  @@ ("inference_provider" :> StrV("anthropic"))
P_EXEC == ("function_name" :> StrV("TEST_FUNCTION")) @@ (ARGS_KEY :> DictV(XY))
P_EXEC0 == ("function_name" :> StrV("TEST_FUNCTION")) @@ (ARGS_KEY :> DictV({}))
P_FLAT == ("function_name" :> StrV("TEST_FUNCTION"))
              @@ ("x" :> IntV(1)) @@ ("y" :> IntV(2))
P_NONAME == ARGS_KEY :> DictV(XY)

\* The calls of handle_function_call: each name with parameter mappings of
\* the shapes its path distinguishes (valid, unknown key, wrong type, missing
\* field, explicit null, out-of-range number, flattened arguments).
ParamSetsOf(name) ==
    IF name = SEARCH_APPS_NAME
    THEN {P_EMPTY, P_INTENT, P_NULL, P_QUERY, P_BADLIMIT, P_BOUNDS}
    ELSE IF name = SEARCH_FUNCTIONS_NAME
    THEN {P_EMPTY, P_APPS, P_NULL, P_BADAPPS, P_BOUNDS}
    ELSE IF name = GET_FUNCTION_DEFINITION_NAME
    THEN {P_NAME, P_EMPTY, P_BADNAME, P_PROVIDER}
    ELSE IF name = EXECUTE_FUNCTION_NAME
    THEN {P_EXEC, P_EXEC0, P_FLAT, P_NONAME, P_NAME}
    ELSE {P_EMPTY, P_QUERY, P_EXEC}

\* Arguments of a direct call of a resource operation.
FunctionIds == {"TEST_FUNCTION", "BRAVE_SEARCH__WEB_SEARCH"}
ArgSets == {P_EMPTY, P_QUERY}

\* Statuses and bodies the remote service answers with.
Statuses == {200, 400, 401, 403, 404, 418, 429, 500}
Bodies == {B_MALFORMED, B_FAILED, B_OK}

\* ------------------------------------------------------------ construction

\* An argument or environment variable that may be absent (None).
Some(v) == [some |-> TRUE, v |-> v]
NoStr == [some |-> FALSE, v |-> ""]
NoUrl == [some |-> FALSE, v |-> <<>>]

\* A URL string is the sequence of its pieces: the scheme and authority
\* first, then the path segments and separators ("/", "?", "#") one each.
ORIGIN == "https://api.aipolabs.xyz"

\* The built-in default: test_client_initialization_without_base_url finds
\* the client's base_url equal to it, so it is in trailing-slash form.
DEFAULT_AIPOLABS_BASE_URL == <<ORIGIN, "/", "v1", "/">>

\* The position of the first such piece of a string from i on, 0 for none.
RECURSIVE Find(_, _, _)
Find(s, piece, i) ==
    IF i > Len(s) THEN 0
    ELSE IF s[i] = piece THEN i
    ELSE Find(s, piece, i + 1)

\* httpx.URL(string): the scheme and authority, raw_path (the path and the
\* query; "/" for an empty path) and the fragment, which is no part of
\* raw_path.
URL(s) ==
    LET hash == Find(s, "#", 2)
        stop == IF hash = 0 THEN Len(s) ELSE hash - 1
        raw  == SubSeq(s, 2, stop)
    IN  [origin   |-> s[1],
         raw_path |-> IF raw = <<>> THEN <<"/">> ELSE raw,
         fragment |-> IF hash = 0 THEN <<>> ELSE SubSeq(s, hash + 1, Len(s))]

\* str(url)
Str(url) ==
    <<url.origin>> \o url.raw_path
        \o (IF url.fragment = <<>> THEN <<>> ELSE <<"#">> \o url.fragment)

EndsWith(s, piece) == Len(s) > 0 /\ s[Len(s)] = piece

\* A normalization that appends "/" whatever the URL ends with.
EnforceTrailingSlash_Always(url) == [url EXCEPT !.raw_path = Append(@, "/")]

\* Aipolabs._enforce_trailing_slash
EnforceTrailingSlash(url) ==
    IF EndsWith(url.raw_path, "/")
    THEN url
    ELSE [url EXCEPT !.raw_path = Append(@, "/")]

\* The api_key resolution with the environment consulted first.
ResolveApiKey_EnvironFirst(api_key, environ_key) ==
    IF environ_key.some THEN environ_key ELSE api_key

\* if api_key is None: api_key = os.environ.get("AIPOLABS_API_KEY")
ResolveApiKey(api_key, environ_key) ==
    IF api_key.some THEN api_key ELSE environ_key

\* if base_url is None:
\*     base_url = os.environ.get("AIPOLABS_BASE_URL", DEFAULT_AIPOLABS_BASE_URL)
ResolveBaseUrl(base_url, environ_url) ==
    IF base_url.some THEN base_url.v
    ELSE IF environ_url.some THEN environ_url.v
    ELSE DEFAULT_AIPOLABS_BASE_URL

\* The arguments of Aipolabs(...) and the environment it is called in.
Config(api_key, base_url, environ_key, environ_url) ==
    [api_key |-> api_key, base_url |-> base_url,
     AIPOLABS_API_KEY |-> environ_key, AIPOLABS_BASE_URL |-> environ_url]

\* The attributes Aipolabs.__init__ sets, given the resolved api_key.
Client(api_key, cfg) ==
    [api_key  |-> api_key,
     base_url |-> EnforceTrailingSlash(
                      URL(ResolveBaseUrl(cfg.base_url, cfg.AIPOLABS_BASE_URL))),
     inference_provider |-> INFERENCE_PROVIDER,
     headers  |-> ("Content-Type" :> "application/json") @@ ("x-api-key" :> api_key)]

\* The client object bound by Aipolabs(...): none, or the one constructed.
NoClient == <<>>

\* Aipolabs.__init__: the exception it raises (NoExc for none) and the
\* client it leaves.
New(cfg) ==
    LET key == ResolveApiKey(cfg.api_key, cfg.AIPOLABS_API_KEY)
    IN  IF ~key.some
        THEN [raised |-> TRUE,
              exc    |-> Exc("APIKeyNotFound", "The API key is not found.", -1, 0, ""),
              client |-> NoClient]
        ELSE [raised |-> FALSE, exc |-> NoExc, client |-> <<Client(key.v, cfg)>>]

\* create_test_client() of the tests
API_KEY == "test_api_key"
BASE_URL == <<ORIGIN, "/", "v1", "/">>
TestConfig == Config(Some(API_KEY), Some(BASE_URL), NoStr, NoUrl)

ApiKeys == {NoStr, Some(API_KEY), Some("")}
EnvironKeys == {NoStr, Some("environ_api_key"), Some(API_KEY)}
BaseUrls ==
    {NoUrl, Some(BASE_URL), Some(<<ORIGIN, "/", "v1">>), Some(<<ORIGIN>>),
     Some(<<ORIGIN, "/">>), Some(<<ORIGIN, "/", "v1", "?", "page=1">>),
     Some(<<ORIGIN, "/", "v1", "#", "top">>),
     Some(<<ORIGIN, "/", "v1", "/", "#", "top">>)}
EnvironUrls ==
    {NoUrl, Some(<<"http://localhost:8000", "/", "v1">>),
     Some(<<"http://localhost:8000", "/", "v1", "/">>)}
Configs ==
    {Config(k, u, ek, eu) :
        k \in ApiKeys, u \in BaseUrls, ek \in EnvironKeys, eu \in EnvironUrls}

\* ------------------------------------------------------------------- state

VARIABLES
    pc,              \* "idle", "running" (in the retry loop), "returned", "raised"
    calls,           \* calls started on this client so far
    call,            \* the call in progress: entry point, name, parameters
    op,              \* the resource operation the call runs ("" when none)
    request,         \* the request that operation sends on every attempt
    attempt_number,  \* tenacity's attempt counter of the call
    history,         \* Tag of the outcome of each attempt of the call
    wire,            \* the requests sent for the call, in order
    last,            \* the outcome of the latest attempt
    result,          \* what the call returned
    error,           \* what the call raised, and the attempt that raised it
    config,          \* the arguments and environment of Aipolabs(...)
    client,          \* the constructed client: <<>> or <<its attributes>>
    executions       \* times the remote performed the call's execute request

vars ==
    <<pc, calls, call, op, request, attempt_number, history, wire, last,
      result, error, config, client, executions>>

Call(entry, name, params) == [entry |-> entry, name |-> name, params |-> params]
NoCall == Call("", "", EmptyDict)
NoOutcome == Response(0, B_EMPTY)
Error(exc, attempt) == [exc |-> exc, attempt |-> attempt]
NoError == Error(NoExc, 0)

Init ==
    /\ pc = "idle"
    /\ calls = 0
    /\ call = NoCall
    /\ op = ""
    /\ request = NoRequest
    /\ attempt_number = 0
    /\ history = <<>>
    /\ wire = <<>>
    /\ last = NoOutcome
    /\ result = NoneJson
    /\ error = NoError
    /\ config = TestConfig
    /\ client = New(TestConfig).client
    /\ executions = 0

\* The client is synchronous: a call starts when no other is in its loop.
CanCall == pc \in {"idle", "returned", "raised"} /\ calls < MaxCalls

\* A retry state kept by the client and carried from one call to the next.
NewAttemptNumber_Shared(previous) == previous

\* @retry(**retry_config): every call of the wrapped operation starts a
\* retry state of its own, whatever the previous call's counter reached.
NewAttemptNumber(previous) == 0

\* A resource operation is entered: a fresh retry state, nothing sent yet.
Enter(c, operation, req) ==
    /\ pc' = "running"
    /\ calls' = calls + 1
    /\ call' = c
    /\ op' = operation
    /\ request' = req
    /\ attempt_number' = NewAttemptNumber(attempt_number)
    /\ history' = <<>>
    /\ wire' = <<>>
    /\ last' = NoOutcome
    /\ result' = NoneJson
    /\ error' = NoError
    /\ executions' = 0
    /\ UNCHANGED <<config, client>>

\* The call ends before any resource operation is entered.
Fail(c, exc) ==
    /\ pc' = "raised"
    /\ calls' = calls + 1
    /\ call' = c
    /\ op' = ""
    /\ request' = NoRequest
    /\ attempt_number' = 0
    /\ history' = <<>>
    /\ wire' = <<>>
    /\ last' = NoOutcome
    /\ result' = NoneJson
    /\ error' = Error(exc, 0)
    /\ executions' = 0
    /\ UNCHANGED <<config, client>>

HandleFunctionCall(function_name, function_parameters) ==
    /\ CanCall
    /\ LET d == Dispatch(function_name, function_parameters)
           c == Call("handle_function_call", function_name, function_parameters)
       IN  IF d.ok THEN Enter(c, d.op, d.request)
           ELSE Fail(c, PydanticError(d.field))

SearchApps(params) ==
    /\ CanCall
    /\ Enter(Call("search_apps", "", params), "search_apps",
             SearchAppsRequest(params))

SearchFunctions(params) ==
    /\ CanCall
    /\ Enter(Call("search_functions", "", params), "search_functions",
             SearchFunctionsRequest(params))

GetFunctionDefinition(function_name) ==
    /\ CanCall
    /\ Enter(Call("get_function_definition", function_name, EmptyDict),
             "get_function_definition",
             GetFunctionDefinitionRequest(function_name))

ExecuteFunction(function_name, function_parameters) ==
    /\ CanCall
    /\ Enter(Call("execute_function", function_name, function_parameters),
             "execute_function",
             ExecuteFunctionRequest(function_name, function_parameters))

\* One attempt of the retry loop: the request is sent, the environment
\* decides the outcome, the wrapped function returns or raises, and the
\* policy (retry predicate, stop, reraise) decides what follows.
Attempt(outcome) ==
    /\ pc = "running"
    /\ LET n == attempt_number + 1
           r == AttemptResult(outcome)
       IN  /\ attempt_number' = n
           /\ wire' = Append(wire, request)
           /\ history' = Append(history, Tag(outcome))
           /\ last' = outcome
           /\ IF ~r.raised
              THEN /\ pc' = "returned"
                   /\ result' = r.value
                   /\ error' = error
              ELSE IF ~ShouldRetry(r.exc)
              THEN /\ pc' = "raised"
                   /\ result' = result
                   /\ error' = Error(r.exc, n)
              ELSE IF ShouldStop(n)
              THEN /\ pc' = "raised"
                   /\ result' = result
                   /\ error' = Error(Reraise(r.exc), n)
              ELSE /\ pc' = "running"
                   /\ result' = result
                   /\ error' = error
    /\ UNCHANGED <<calls, call, op, request, config, client>>

\* The remote's count of executions after an attempt: an execute request
\* the remote accepted is performed, once more for every time it arrives.
Executed(accepted) ==
    IF accepted /\ op = "execute_function" THEN executions + 1 ELSE executions

\* The remote answers: with 200 when it accepted the request.
AttemptResponse(status, body) ==
    /\ Attempt(Response(status, body))
    /\ executions' = Executed(status = 200)

\* The request fails before the remote accepts it.
AttemptTransportFailure(kind) ==
    /\ Attempt(TransportFailure(kind))
    /\ executions' = Executed(FALSE)

\* The remote accepts the request and the response is lost on the way back.
AttemptLostResponse(kind) ==
    /\ Attempt(TransportFailure(kind))
    /\ executions' = Executed(TRUE)

\* The typed parameter objects a caller of search_apps / search_functions
\* can hold: what the validators produce.
SearchAppsParamSets ==
    {SearchAppsValidate(p).value :
        p \in {q \in ParamSetsOf(SEARCH_APPS_NAME) : SearchAppsValidate(q).ok}}
SearchFunctionsParamSets ==
    {SearchFunctionsValidate(p).value :
        p \in {q \in ParamSetsOf(SEARCH_FUNCTIONS_NAME) : SearchFunctionsValidate(q).ok}}

Next ==
    \/ \E name \in CallNames : \E params \in ParamSetsOf(name) :
           HandleFunctionCall(name, params)
    \/ \E params \in SearchAppsParamSets : SearchApps(params)
    \/ \E params \in SearchFunctionsParamSets : SearchFunctions(params)
    \/ \E name \in FunctionIds : GetFunctionDefinition(name)
    \/ \E name \in FunctionIds, args \in ArgSets : ExecuteFunction(name, args)
    \/ \E status \in Statuses, body \in Bodies : AttemptResponse(status, body)
    \/ \E kind \in TransportKinds : AttemptTransportFailure(kind)
    \/ \E kind \in TransportKinds : AttemptLostResponse(kind)

Spec == Init /\ [][Next]_vars

\* An attempt of the loop, whatever its outcome.
Retry ==
    \/ \E status \in Statuses, body \in Bodies : AttemptResponse(status, body)
    \/ \E kind \in TransportKinds : AttemptTransportFailure(kind)
    \/ \E kind \in TransportKinds : AttemptLostResponse(kind)

\* Every attempt ends: httpx's default timeouts bound a request and
\* wait_exponential's max bounds the wait before the next one, so a call in
\* its retry loop always makes its next attempt.
SpecLive == Spec /\ WF_vars(Retry)

\* ------------------------------------------------- response classification
\* _handle_response on its own: every status of a range, every body.

MinStatus == 100
MaxStatus == 600

InitClassify ==
    /\ pc = "response"
    /\ calls = 0
    /\ call = NoCall
    /\ op = ""
    /\ request = NoRequest
    /\ attempt_number = 0
    /\ history = <<>>
    /\ wire = <<>>
    /\ last \in {Response(s, b) : s \in MinStatus..MaxStatus, b \in AllBodies}
    /\ result = NoneJson
    /\ error = NoError
    /\ config = TestConfig
    /\ client = New(TestConfig).client
    /\ executions = 0

Classify ==
    /\ pc = "response"
    /\ LET r == HandleResponse(last.status, last.body)
       IN  /\ pc' = IF r.raised THEN "raised" ELSE "returned"
           /\ result' = r.value
           /\ error' = IF r.raised THEN Error(r.exc, 1) ELSE NoError
    /\ UNCHANGED <<calls, call, op, request, attempt_number, history, wire, last,
                   config, client, executions>>

SpecClassify == InitClassify /\ [][Classify]_vars

\* ------------------------------------------------- construction of a client
\* The client is about to be constructed, with any arguments in any
\* environment.

InitConstruct ==
    /\ pc = "new"
    /\ calls = 0
    /\ call = NoCall
    /\ op = ""
    /\ request = NoRequest
    /\ attempt_number = 0
    /\ history = <<>>
    /\ wire = <<>>
    /\ last = NoOutcome
    /\ result = NoneJson
    /\ error = NoError
    /\ config \in Configs
    /\ client = NoClient
    /\ executions = 0

\* Aipolabs(api_key=..., base_url=...)
Construct ==
    /\ pc = "new"
    /\ LET r == New(config)
       IN  /\ pc' = IF r.raised THEN "raised" ELSE "idle"
           /\ error' = IF r.raised THEN Error(r.exc, 0) ELSE NoError
           /\ client' = r.client
    /\ UNCHANGED <<calls, call, op, request, attempt_number, history, wire, last,
                   result, config, executions>>

SpecConstruct == InitConstruct /\ [][Construct]_vars

\* ------------------------------------------------------------------ claims

\* A call that entered a resource operation has ended.
Finished == pc \in {"returned", "raised"} /\ op # ""

IsStatus(tag, status) == tag.transport = "" /\ tag.status = status
Is5xx(tag) == tag.transport = "" /\ 500 <= tag.status /\ tag.status <= 599
IsClientError(tag) == tag.transport = "" /\ tag.status \in {400, 401, 403, 404}
IsUnknownStatus(tag) ==
    /\ tag.transport = ""
    /\ tag.status \notin {200, 400, 401, 403, 404, 429}
    /\ ~(500 <= tag.status /\ tag.status <= 599)
IsTransportRetryable(tag) == tag.transport \in {TIMEOUT, NETWORK}

\* The retryable outcomes as the specification lists them.
IsRetryable(tag) ==
    Is5xx(tag) \/ IsStatus(tag, 429) \/ IsUnknownStatus(tag) \/ IsTransportRetryable(tag)

Attempts == 1..Len(history)

\* The typed error the specification's table gives a status.
TaxonomyOf(status) ==
    IF status = 400 THEN "ValidationError"
    ELSE IF status = 401 THEN "AuthenticationError"
    ELSE IF status = 403 THEN "PermissionError"
    ELSE IF status = 404 THEN "NotFoundError"
    ELSE IF status = 429 THEN "RateLimitError"
    ELSE IF status \in 500..599 THEN "ServerError"
    ELSE "UnknownError"

\* C1: a call of any resource operation whose every attempt is answered 429,
\* or whose every attempt is answered 5xx, ends having sent exactly
\* DEFAULT_MAX_RETRIES requests and raising RateLimitError, respectively
\* ServerError.
C1_ExhaustedAfterMaxAttempts ==
    Finished =>
        /\ (\A i \in Attempts : IsStatus(history[i], 429)) =>
              /\ Len(wire) = DEFAULT_MAX_RETRIES
              /\ pc = "raised"
              /\ error.exc.kind = "RateLimitError"
        /\ (\A i \in Attempts : Is5xx(history[i])) =>
              /\ Len(wire) = DEFAULT_MAX_RETRIES
              /\ pc = "raised"
              /\ error.exc.kind = "ServerError"

C1_Witness ==
    /\ Finished
    /\ op = "search_functions"
    /\ Len(wire) = DEFAULT_MAX_RETRIES
    /\ \A i \in Attempts : IsStatus(history[i], 429)
    /\ error.exc.kind = "RateLimitError"

\* C2: when the first attempt of a call is answered 400, 401, 403 or 404,
\* the call has ended with exactly one request sent, raising ValidationError,
\* AuthenticationError, PermissionError or NotFoundError respectively.
C2_ClientErrorNotRetried ==
    (Len(history) >= 1 /\ IsClientError(history[1])) =>
        /\ pc = "raised"
        /\ Len(wire) = 1
        /\ Len(history) = 1
        /\ error.exc.kind =
              (IF history[1].status = 400 THEN "ValidationError"
               ELSE IF history[1].status = 401 THEN "AuthenticationError"
               ELSE IF history[1].status = 403 THEN "PermissionError"
               ELSE "NotFoundError")

C2_Witness ==
    /\ Finished
    /\ op = "get_function_definition"
    /\ history = <<Tag(Response(404, B_FAILED))>>
    /\ Len(wire) = 1
    /\ error.exc.kind = "NotFoundError"

\* C3: for every k up to DEFAULT_MAX_RETRIES, a call whose attempts 1..k-1
\* failed retryably is still in its loop (attempt k is made), and a 200 on
\* attempt k ends the call: it returns the parsed body of attempt k, raises
\* nothing, and exactly k requests were sent (none after the success).
C3_SuccessAfterRetries ==
    /\ (op # "" /\ Len(history) < DEFAULT_MAX_RETRIES
          /\ \A i \in Attempts : IsRetryable(history[i])) => pc = "running"
    /\ \A k \in Attempts :
          IsStatus(history[k], 200) =>
              /\ k = Len(history)
              /\ k <= DEFAULT_MAX_RETRIES
              /\ \A i \in 1..(k - 1) : IsRetryable(history[i])
              /\ pc = "returned"
              /\ Len(wire) = k
              /\ error = NoError
              /\ last.status = 200
              /\ result.none = ~(last.body.content /\ last.body.valid_json)
              /\ (~result.none => result.text = last.body.text)

C3_Witness ==
    /\ pc = "returned"
    /\ op = "execute_function"
    /\ history = <<Tag(Response(500, B_OK)), Tag(TransportFailure(TIMEOUT)),
                   Tag(Response(200, B_OK))>>
    /\ Len(wire) = 3
    /\ result.text = B_OK.text

\* C4: a call whose every attempt fails with a transport timeout or a
\* network error ends having sent exactly DEFAULT_MAX_RETRIES requests and
\* raising the transport error of its last attempt itself: not a typed error
\* of the taxonomy, not a wrapper.
C4_TransportErrorSurfaced ==
    (Finished /\ \A i \in Attempts : IsTransportRetryable(history[i])) =>
        /\ Len(wire) = DEFAULT_MAX_RETRIES
        /\ pc = "raised"
        /\ error.attempt = DEFAULT_MAX_RETRIES
        /\ error.exc = TransportExc(last.transport)
        /\ error.exc.kind \in {TIMEOUT, NETWORK}

C4_Witness ==
    /\ Finished
    /\ \A i \in Attempts : history[i].transport = NETWORK
    /\ Len(wire) = DEFAULT_MAX_RETRIES
    /\ error.exc.kind = NETWORK

\* C5: a call that exhausts its attempts with retryable failures that are
\* not all of one kind raises the error of its last attempt: its kind, its
\* message and its status code, not wrapped.
C5_LastErrorReraised ==
    (Finished /\ Len(history) = DEFAULT_MAX_RETRIES
        /\ (\A i \in Attempts : IsRetryable(history[i]))
        /\ \E i, j \in Attempts : history[i] # history[j]) =>
        /\ pc = "raised"
        /\ error.attempt = DEFAULT_MAX_RETRIES
        /\ error.exc.kind =
              (IF last.transport # "" THEN last.transport
               ELSE TaxonomyOf(last.status))
        /\ error.exc.status_code = last.status
        /\ error.exc.body = (IF last.transport # "" THEN "" ELSE last.body.text)
        /\ (last.transport = "" /\ ~IsUnknownStatus(last) =>
              error.exc.message =
                  (IF last.body.valid_json /\ last.body.is_dict /\ last.body.message # ""
                   THEN last.body.message
                   ELSE IF last.body.valid_json /\ last.body.is_dict /\ last.body.error # ""
                   THEN last.body.error
                   ELSE last.body.text))

C5_Witness ==
    /\ Finished
    /\ history = <<Tag(Response(500, B_OK)), Tag(TransportFailure(TIMEOUT)),
                   Tag(Response(429, B_OK))>>
    /\ last = Response(429, B_FAILED)
    /\ error.exc = Exc("RateLimitError", "e", -1, 429, B_FAILED.text)

\* C6: classification is a total function of the status code.  Once a
\* response is classified: 200 returns the parsed body and raises nothing;
\* any other status raises exactly the typed error of the table (400
\* ValidationError, 401 AuthenticationError, 403 PermissionError, 404
\* NotFoundError, 429 RateLimitError, 500..599 ServerError, all the rest
\* UnknownError), and the error carries the status code and the raw text.
C6_ClassificationTotal ==
    pc # "response" =>
        IF last.status = 200
        THEN /\ pc = "returned"
             /\ error = NoError
             /\ result.none = ~(last.body.content /\ last.body.valid_json)
             /\ (~result.none => result.text = last.body.text)
        ELSE /\ pc = "raised"
             /\ result = NoneJson
             /\ error.exc.kind = TaxonomyOf(last.status)
             /\ error.exc.status_code = last.status
             /\ error.exc.body = last.body.text

C6_Witness ==
    /\ pc = "raised"
    /\ last.status = 600
    /\ last.body = B_LIST
    /\ error.exc.kind = "UnknownError"
    /\ error.exc.body = B_LIST.text

\* C7: a call whose every attempt is answered with a status outside the
\* table (not 200, 400, 401, 403, 404, 429, 5xx) is retried up to
\* DEFAULT_MAX_RETRIES attempts and then raises UnknownError, whose message
\* has that status code formatted into it.
C7_UnknownStatusRetried ==
    /\ (op # "" /\ Len(history) < DEFAULT_MAX_RETRIES
          /\ \A i \in Attempts : IsUnknownStatus(history[i])) => pc = "running"
    /\ (Finished /\ \A i \in Attempts : IsUnknownStatus(history[i])) =>
          /\ Len(wire) = DEFAULT_MAX_RETRIES
          /\ pc = "raised"
          /\ error.exc.kind = "UnknownError"
          /\ error.exc.message = UnknownMessage
          /\ error.exc.code = last.status

C7_Witness ==
    /\ Finished
    /\ Len(wire) = DEFAULT_MAX_RETRIES
    /\ \A i \in Attempts : IsStatus(history[i], 418)
    /\ error.exc.kind = "UnknownError"
    /\ error.exc.code = 418

IsHandleFunctionCall == call.entry = "handle_function_call"

\* request is POST functions/{name}/execute with input as function_input.
IsExecuteRequest(req, name, input) ==
    /\ req.method = "POST"
    /\ req.path = <<"functions", name, "execute">>
    /\ req.body_key = "function_input"
    /\ req.input = input

\* C8: handle_function_call with a name that is none of the four
\* meta-operation names raises nothing before a request is sent, and the
\* request of the call, and every request it sends, is POST
\* functions/{name}/execute with the given parameters as the function input.
C8_UnrecognizedNameExecutes ==
    (IsHandleFunctionCall /\ call.name \notin MetaNames) =>
        /\ op = "execute_function"
        /\ IsExecuteRequest(request, call.name, call.params)
        /\ ~(pc = "raised" /\ Len(wire) = 0)
        /\ (pc # "running" => Len(wire) >= 1)
        /\ \A i \in 1..Len(wire) : IsExecuteRequest(wire[i], call.name, call.params)

C8_Witness ==
    /\ IsHandleFunctionCall
    /\ call.name = "aipolabs_search_apps"
    /\ call.params = P_QUERY
    /\ pc = "returned"
    /\ Len(wire) = 1
    /\ IsExecuteRequest(wire[1], "aipolabs_search_apps", P_QUERY)

\* The parameters satisfy the declared schema of the meta-operation name.
ValidFor(name, params) ==
    IF name = SEARCH_APPS_NAME THEN SearchAppsValidate(params).ok
    ELSE IF name = SEARCH_FUNCTIONS_NAME THEN SearchFunctionsValidate(params).ok
    ELSE IF name = GET_FUNCTION_DEFINITION_NAME
        THEN GetFunctionDefinitionValidate(params).ok
    ELSE IF name = EXECUTE_FUNCTION_NAME THEN ExecuteFunctionValidate(params).ok
    ELSE TRUE

\* input is the mapping the nested object value v holds.
IsNested(input, v) ==
    /\ DOMAIN input = {e.k : e \in v.d}
    /\ \A e \in v.d :
          /\ input[e.k].ty = e.ty
          /\ input[e.k].s = e.s
          /\ input[e.k].n = e.n

\* C9: handle_function_call routes by name, and a dispatch with valid
\* parameters runs exactly one resource operation, every request of the call
\* being that operation's: SearchApps -> GET apps/search; SearchFunctions ->
\* GET functions/search; GetFunctionDefinition -> GET functions/{function_name
\* of the parameters}; ExecuteFunction -> POST functions/{function_name of the
\* parameters}/execute whose input is the nested arguments object of the
\* parameters (not the meta name, not the whole parameter mapping).
C9_RoutingByName ==
    (IsHandleFunctionCall /\ call.name \in MetaNames
        /\ ValidFor(call.name, call.params)) =>
        /\ (pc # "running" => Len(wire) >= 1)
        /\ \A i \in 1..Len(wire) : wire[i] = request
        /\ call.name = SEARCH_APPS_NAME =>
              /\ op = "search_apps"
              /\ request.method = "GET"
              /\ request.path = <<"apps", "search">>
        /\ call.name = SEARCH_FUNCTIONS_NAME =>
              /\ op = "search_functions"
              /\ request.method = "GET"
              /\ request.path = <<"functions", "search">>
        /\ call.name = GET_FUNCTION_DEFINITION_NAME =>
              /\ op = "get_function_definition"
              /\ request.method = "GET"
              /\ request.path = <<"functions", call.params["function_name"].s>>
        /\ call.name = EXECUTE_FUNCTION_NAME =>
              /\ op = "execute_function"
              /\ request.method = "POST"
              /\ request.path =
                    <<"functions", call.params["function_name"].s, "execute">>
              /\ request.body_key = "function_input"
              /\ IsNested(request.input, call.params[ARGS_KEY])

C9_Witness ==
    /\ IsHandleFunctionCall
    /\ call.name = EXECUTE_FUNCTION_NAME
    /\ call.params = P_EXEC
    /\ pc = "returned"
    /\ Len(wire) = 1
    /\ wire[1].path = <<"functions", "TEST_FUNCTION", "execute">>
    /\ wire[1].input = ("x" :> IntV(1)) @@ ("y" :> IntV(2))

\* The parameters name the function and carry its arguments at the top
\* level, without the nested arguments object.
IsFlattened(params) ==
    /\ Has(params, "function_name")
    /\ params["function_name"].ty = "str"
    /\ ~Has(params, ARGS_KEY)
    /\ DOMAIN params # {"function_name"}

\* C10: handle_function_call with the ExecuteFunction name and flattened
\* parameters behaves like the call with the arguments wrapped: validation
\* succeeds, and the execute request for the named function carries every
\* key other than function_name as its input.
C10_FlattenedArgumentsRepaired ==
    (IsHandleFunctionCall /\ call.name = EXECUTE_FUNCTION_NAME
        /\ IsFlattened(call.params)) =>
        /\ error.exc.kind # "pydantic.ValidationError"
        /\ op = "execute_function"
        /\ IsExecuteRequest(request, call.params["function_name"].s,
                            Restrict(call.params, DOMAIN call.params \ {"function_name"}))

\* C11: on the four meta-operation paths of handle_function_call validation
\* comes before any network access: when the parameters fail the operation's
\* validator the call has raised the validation error, no resource operation
\* was entered and no request was sent.
C11_ValidationBeforeNetwork ==
    (IsHandleFunctionCall /\ call.name \in MetaNames
        /\ ~ValidFor(call.name, call.params)) =>
        /\ pc = "raised"
        /\ error.exc.kind = "pydantic.ValidationError"
        /\ error.exc.message # ""
        /\ op = ""
        /\ attempt_number = 0
        /\ Len(wire) = 0

C11_Witness ==
    /\ IsHandleFunctionCall
    /\ call.name = SEARCH_APPS_NAME
    /\ call.params = P_BADLIMIT
    /\ pc = "raised"
    /\ error.exc = PydanticError("limit")
    /\ Len(wire) = 0

IsSearch == op \in {"search_apps", "search_functions"}

\* C12: the query of the GET request of a SearchApps / SearchFunctions call
\* holds no field whose value is null and no optional field the caller left
\* unset, whether the caller omitted the field or passed it as null.
C12_NoNullInQuery ==
    IsSearch =>
        \A key \in DOMAIN request.query :
            /\ request.query[key].ty # "null"
            /\ Has(call.params, key)
            /\ call.params[key].ty # "null"

\* limit is outside [1, 1000] or offset is below 0.
OutOfRange(params) ==
    \/ /\ Has(params, "limit")
       /\ params["limit"].ty = "int"
       /\ (params["limit"].n < 1 \/ params["limit"].n > 1000)
    \/ /\ Has(params, "offset")
       /\ params["offset"].ty = "int"
       /\ params["offset"].n < 0

\* C13: the validators of SearchApps and SearchFunctions enforce the bounds
\* of the declared schema: a call with limit outside [1, 1000] or offset
\* below 0 raises a validation error naming the field and sends nothing, and
\* no search request carries such a limit or offset.
C13_BoundsEnforced ==
    /\ (IsHandleFunctionCall /\ call.name \in {SEARCH_APPS_NAME, SEARCH_FUNCTIONS_NAME}
          /\ OutOfRange(call.params)) =>
          /\ pc = "raised"
          /\ error.exc.kind = "pydantic.ValidationError"
          /\ error.exc.message \in {"limit", "offset"}
          /\ Len(wire) = 0
    /\ IsSearch => ~OutOfRange(request.query)

\* C14: a 200 response to an execute request whose body reports
\* success=false ends the call as a normal result carrying that body (and
\* its error string): nothing is raised and no further request is sent, so a
\* first attempt answered this way makes exactly one request.  This holds on
\* the ExecuteFunction meta path, on the direct-execution path and for
\* execute_function called directly.
C14_FailedExecutionIsAResult ==
    (op = "execute_function" /\ Len(history) >= 1 /\ last = Response(200, B_FAILED)) =>
        /\ pc = "returned"
        /\ error = NoError
        /\ ~result.none
        /\ result.text = B_FAILED.text
        /\ Len(wire) = Len(history)
        /\ (IsStatus(history[1], 200) => Len(wire) = 1)

C14_Witness ==
    /\ IsHandleFunctionCall
    /\ call.name = EXECUTE_FUNCTION_NAME
    /\ call.params = P_EXEC
    /\ pc = "returned"
    /\ history = <<Tag(Response(200, B_FAILED))>>
    /\ last.body = B_FAILED
    /\ result.text = B_FAILED.text
    /\ Len(wire) = 1

\* C15: a 200 response whose body is empty or is not valid JSON is never
\* turned into a null result: the call raises a deserialization error, which
\* is none of the typed errors of the HTTP statuses.
C15_MalformedBodyRaises ==
    (op # "" /\ Len(history) >= 1 /\ last.transport = "" /\ last.status = 200
        /\ ~(last.body.content /\ last.body.valid_json)) =>
        /\ pc = "raised"
        /\ error.exc.kind \notin
              {"", "ValidationError", "AuthenticationError", "PermissionError",
               "NotFoundError", "RateLimitError", "ServerError", "UnknownError"}

\* C17: get function definition sends the inference_provider the caller
\* supplies, unchanged, as the inference_provider query parameter.
C17_InferenceProviderPassedThrough ==
    (IsHandleFunctionCall /\ call.name = GET_FUNCTION_DEFINITION_NAME
        /\ op = "get_function_definition"
        /\ Has(call.params, "inference_provider")) =>
        /\ Has(request.query, "inference_provider")
        /\ request.query["inference_provider"] = call.params["inference_provider"]

\* C19: the first non-retryable outcome ends the retry loop at once: when
\* attempts 1..j-1 failed retryably and attempt j is answered 400, 401, 403
\* or 404, the call has ended with exactly j requests sent and raises the
\* error of attempt j.
C19_NonRetryableEndsLoop ==
    \A j \in Attempts :
        (IsClientError(history[j]) /\ \A i \in 1..(j - 1) : IsRetryable(history[i])) =>
            /\ j = Len(history)
            /\ pc = "raised"
            /\ Len(wire) = j
            /\ error.attempt = j
            /\ error.exc.kind = TaxonomyOf(history[j].status)
            /\ error.exc.status_code = history[j].status
            /\ error.exc.body = last.body.text

C19_Witness ==
    /\ pc = "raised"
    /\ history = <<Tag(Response(500, B_OK)), Tag(TransportFailure(TIMEOUT)),
                   Tag(Response(404, B_OK))>>
    /\ Len(wire) = 3
    /\ error.attempt = 3
    /\ error.exc.kind = "NotFoundError"

\* C20: every handle_function_call terminates, with a result or a raised
\* error, whatever the remote answers: a call in its retry loop leaves it,
\* never more than DEFAULT_MAX_RETRIES requests are sent for one call (one
\* per attempt of the single retry loop), and a call whose validation passed
\* ends with at least one request sent.
C20_TerminatesWithinBudget ==
    /\ [](/\ Len(wire) <= DEFAULT_MAX_RETRIES
          /\ attempt_number = Len(wire)
          /\ (IsHandleFunctionCall /\ Finished => Len(wire) >= 1)
          /\ (IsHandleFunctionCall /\ pc = "raised" /\ op = "" => Len(wire) = 0))
    /\ ((IsHandleFunctionCall /\ pc = "running")
            ~> (IsHandleFunctionCall /\ pc \in {"returned", "raised"}))

C20_Witness ==
    /\ IsHandleFunctionCall
    /\ pc = "raised"
    /\ Len(wire) = DEFAULT_MAX_RETRIES
    /\ history = <<Tag(Response(418, B_OK)), Tag(TransportFailure(NETWORK)),
                   Tag(Response(500, B_OK))>>

\* The construction of the client has ended.
Constructed == pc = "idle" /\ Len(client) = 1
ConstructionFailed == pc = "raised" /\ calls = 0

\* C16: construction resolves api_key as the explicit argument if given,
\* else the environment variable, else it raises APIKeyNotFound and leaves
\* no client (no attributes, headers or connection pool); a constructed
\* client holds a non-null api_key equal to its x-api-key header.
C16_ApiKeyResolution ==
    /\ pc # "new" =>
        (ConstructionFailed <=> ~config.api_key.some /\ ~config.AIPOLABS_API_KEY.some)
    /\ pc # "new" => (Constructed <=> ~ConstructionFailed)
    /\ ConstructionFailed =>
        /\ error.exc.kind = "APIKeyNotFound"
        /\ client = NoClient
    /\ Constructed =>
        /\ config.api_key.some => client[1].api_key = config.api_key.v
        /\ ~config.api_key.some =>
            /\ config.AIPOLABS_API_KEY.some
            /\ client[1].api_key = config.AIPOLABS_API_KEY.v
        /\ client[1].headers["x-api-key"] = client[1].api_key

\* Both sources give a key and they differ: the explicit one is held.
C16_Witness ==
    /\ Constructed
    /\ config.api_key = Some(API_KEY)
    /\ config.AIPOLABS_API_KEY = Some("environ_api_key")
    /\ client[1].api_key = API_KEY
    /\ client[1].headers["x-api-key"] = API_KEY

\* The URL the client was given, before normalization.
GivenUrl == URL(ResolveBaseUrl(config.base_url, config.AIPOLABS_BASE_URL))

\* C18 as stated: after construction the client's base_url ends with "/",
\* whichever source it came from.
C18_BaseUrlEndsWithSlash ==
    Constructed => EndsWith(Str(client[1].base_url), "/")

\* C18, amended: after construction the raw_path (path and query) of the
\* client's base_url ends with "/", whichever source the URL came from; a
\* URL whose raw_path already ended with "/" is unchanged, any other has
\* exactly one "/" appended to its raw_path and nothing else changed, and
\* normalizing the result again changes nothing.
C18_RawPathEndsWithSlash ==
    Constructed =>
        LET url == client[1].base_url
        IN  /\ EndsWith(url.raw_path, "/")
            /\ config.base_url.some => url.origin = config.base_url.v[1]
            /\ (~config.base_url.some /\ config.AIPOLABS_BASE_URL.some) =>
                    url.origin = config.AIPOLABS_BASE_URL.v[1]
            /\ (~config.base_url.some /\ ~config.AIPOLABS_BASE_URL.some) =>
                    Str(url) = DEFAULT_AIPOLABS_BASE_URL
            /\ EndsWith(GivenUrl.raw_path, "/") => url = GivenUrl
            /\ ~EndsWith(GivenUrl.raw_path, "/") =>
                    /\ url.raw_path = GivenUrl.raw_path \o <<"/">>
                    /\ url.origin = GivenUrl.origin
                    /\ url.fragment = GivenUrl.fragment
            /\ EnforceTrailingSlash(url) = url

\* A URL that lacked the "/" got it, from the environment.
C18_Witness ==
    /\ Constructed
    /\ ~config.base_url.some
    /\ config.AIPOLABS_BASE_URL = Some(<<"http://localhost:8000", "/", "v1">>)
    /\ Str(client[1].base_url) = <<"http://localhost:8000", "/", "v1", "/">>

\* Every attempt so far of the call failed retryably.
AllRetryable == \A i \in Attempts : IsRetryable(history[i])

\* C21: the retry budget is per call. Whatever the earlier call on the client
\* did (exhausted its attempts, failed without retry, returned), a new call
\* starts with no attempt made and nothing sent, gets DEFAULT_MAX_RETRIES
\* attempts again, numbers its first attempt 1, and ends as the response to
\* its own latest request decides; no step changes the client's api_key,
\* base_url or headers.
C21_RetryBudgetPerCall ==
    /\ [][calls' = calls + 1 =>
            /\ attempt_number' = 0
            /\ history' = <<>>
            /\ wire' = <<>>
            /\ result' = NoneJson
            /\ (op' # "" => pc' = "running" /\ error' = NoError)]_vars
    /\ [][client' = client]_vars
    /\ [](/\ client = New(TestConfig).client
          /\ client[1].headers["x-api-key"] = API_KEY
          /\ attempt_number = Len(history)
          /\ (op # "" /\ AllRetryable /\ Len(history) < DEFAULT_MAX_RETRIES) =>
                /\ pc = "running"
                /\ result = NoneJson
                /\ error = NoError
          /\ (op # "" /\ AllRetryable /\ Len(history) = DEFAULT_MAX_RETRIES) =>
                /\ pc = "raised"
                /\ error.attempt = DEFAULT_MAX_RETRIES
          /\ (Finished /\ Len(history) = 1) => (pc = "raised" => error.attempt = 1)
          /\ Finished =>
                LET r == AttemptResult(last)
                IN  /\ pc = "returned" <=> ~r.raised
                    /\ pc = "returned" => result = r.value
                    /\ pc = "raised" => error.exc = r.exc)

\* A later call on the client used the whole budget.
C21_Witness ==
    /\ calls >= 2
    /\ op # ""
    /\ pc = "raised"
    /\ Len(wire) = DEFAULT_MAX_RETRIES
    /\ AllRetryable
    /\ error.attempt = DEFAULT_MAX_RETRIES
    /\ client = New(TestConfig).client

\* C22: execute_function delivers at least once, not exactly once. Every
\* attempt of an execute call sends the same POST functions/{name}/execute
\* with the same input; an attempt whose response is lost to a timeout or a
\* network error is followed by another while attempts remain, whether or not
\* the remote performed the execution; so the remote performs it at most once
\* per request sent, up to DEFAULT_MAX_RETRIES times for one call, and at
\* least once when the call returns.
C22_AtLeastOnceDelivery ==
    op = "execute_function" =>
        /\ \A i \in 1..Len(wire) :
              /\ wire[i] = request
              /\ wire[i].method = "POST"
              /\ wire[i].path[1] = "functions" /\ wire[i].path[3] = "execute"
              /\ wire[i].body_key = "function_input"
        /\ call.entry = "execute_function" =>
              IsExecuteRequest(request, call.name, call.params)
        /\ executions <= Len(wire)
        /\ Len(wire) <= DEFAULT_MAX_RETRIES
        /\ \A i \in Attempts :
              (IsTransportRetryable(history[i]) /\ i < DEFAULT_MAX_RETRIES) =>
                  (i = Len(history) => pc = "running")
        /\ pc = "returned" => executions >= 1

\* The remote performed the execution on every attempt, each response was
\* lost, and the call ended by raising the transport error.
C22_Witness ==
    /\ op = "execute_function"
    /\ pc = "raised"
    /\ Len(wire) = DEFAULT_MAX_RETRIES
    /\ \A i \in Attempts : IsTransportRetryable(history[i])
    /\ executions = DEFAULT_MAX_RETRIES
    /\ error.exc.kind \in {TIMEOUT, NETWORK}

=============================================================================
